---- MODULE Spec2Model ----
(***************************************************************************)
(* Model of src/src/yaml_utils.py: the YAML configuration loaders          *)
(* load_configs, load_camera_intrinsics, load_ros_topic_names,             *)
(* load_parameters_from_yaml and load_transformation.                      *)
(*                                                                         *)
(* One call runs at a time.  A call opens the file, parses it inside the   *)
(* `with` block, leaves the block (closing the handle) and then runs the   *)
(* body of the loader on the parsed mapping.  Documents are mappings       *)
(* (TLA+ functions over a set of string keys); the camera, topics and      *)
(* transform blocks are mappings holding any subset of their fields.       *)
(***************************************************************************)
EXTENDS Integers, Sequences, FiniteSets, TLC

VARIABLES pc, op, file, doc, arg, handles, pending, configs,
          parameters, quaternion, result, err

vars == <<pc, op, file, doc, arg, handles, pending, configs,
          parameters, quaternion, result, err>>

(* ------------------------------ bounds --------------------------------- *)

\* longest list of requested keys
MaxKeys == 3
\* camera field values are FieldIndex + 11 * base, base in 0..MaxBase
MaxBase == 1
\* position coordinates range over 0..MaxCoord
MaxCoord == 3
\* quaternion components range over -MaxQuat..MaxQuat
MaxQuat == 1
\* file descriptors the process may hold; open() fails beyond it
MaxOpenFiles == 2

(* ------------------------------ values --------------------------------- *)

\* Python's None
None == "None"

EmptyMap == [k \in {} |-> None]

NoResult == [kind |-> "none"]

Ops == {"load_configs", "load_camera_intrinsics", "load_ros_topic_names",
        "load_parameters_from_yaml", "load_transformation"}

FileStates == {"missing", "malformed", "ok"}

\* all mappings from a subset of the keys K to values in V
Mappings(K, V) == UNION {[S -> V] : S \in SUBSET K}

\* all sequences over S of length 0..n
SeqsUpTo(S, n) == UNION {[1..k -> S] : k \in 0..n}

(* ---------------------- load_parameters_from_yaml ---------------------- *)

ParamDocKeys == {"a", "b"}
ParamValues == {"v1", "v2", None}
ParamDocs == Mappings(ParamDocKeys, ParamValues)
RequestKeys == {"a", "b", "c"}
KeyLists == SeqsUpTo(RequestKeys, MaxKeys)

\* mutant of BuildParameters: a key that is not in the document is skipped
BuildParameters_SkipAbsent(cfg, keys) ==
    [k \in {keys[i] : i \in 1..Len(keys)} \cap DOMAIN cfg |-> cfg[k]]

\* lines 109-114: the dict built by the for loop; a repeated key overwrites
\* its own entry, so the dict has one entry per distinct requested key
BuildParameters(cfg, keys) ==
    [k \in {keys[i] : i \in 1..Len(keys)} |->
        IF k \in DOMAIN cfg THEN cfg[k] ELSE None]

\* line 115: len(parameters.values()) == 1
SingleValue(params) == Cardinality(DOMAIN params) = 1

\* lines 115-118: the bare value or the mapping
ParametersReturn(params) ==
    IF SingleValue(params)
    THEN [kind |-> "value", value |-> params[CHOOSE k \in DOMAIN params : TRUE]]
    ELSE [kind |-> "mapping", mapping |-> params]

(* -------------------------- load_ros_topic_names ----------------------- *)

TopicFields == {"image", "tf", "event"}
TopicValues == {"/t1", "/t2"}
TopicBlocks == Mappings(TopicFields, TopicValues)
TopicDocs == {EmptyMap} \cup {[k \in {"topics"} |-> t] : t \in TopicBlocks}

\* dict.get(k): the value, or None when k is not a key
Get(m, k) == IF k \in DOMAIN m THEN m[k] ELSE None

\* line 82: configs.get('topics', {})
TopicsOf(cfg) == IF "topics" \in DOMAIN cfg THEN cfg["topics"] ELSE EmptyMap

\* mutant of TopicNames: the event topic is read from the tf sub-key
TopicNames_EventFromTf(cfg) ==
    [image |-> Get(TopicsOf(cfg), "image"),
     tf    |-> Get(TopicsOf(cfg), "tf"),
     event |-> Get(TopicsOf(cfg), "tf")]

\* lines 83-91
TopicNames(cfg) ==
    [image |-> Get(TopicsOf(cfg), "image"),
     tf    |-> Get(TopicsOf(cfg), "tf"),
     event |-> Get(TopicsOf(cfg), "event")]

(* ------------------------- load_camera_intrinsics ---------------------- *)

\* lines 46-57: the fields read from configs["camera"], in reading order
CameraFieldOrder == <<"fx", "fy", "cx", "cy", "k1", "k2", "k3", "p1", "p2",
                      "image_width", "image_height">>
CameraFields == {CameraFieldOrder[i] : i \in 1..Len(CameraFieldOrder)}

FieldIndex(f) == CHOOSE i \in 1..Len(CameraFieldOrder) : CameraFieldOrder[i] = f

\* camera blocks: any subset of the fields, all fields holding distinct numbers
CameraBlocks ==
    {[f \in S |-> FieldIndex(f) + Len(CameraFieldOrder) * b] :
        S \in SUBSET CameraFields, b \in 0..MaxBase}
CameraDocs == {EmptyMap} \cup {[k \in {"camera"} |-> c] : c \in CameraBlocks}

\* lines 46-57: a subscript of a key that is not there raises KeyError
CameraKeyMissing(cfg) ==
    \/ "camera" \notin DOMAIN cfg
    \/ \E f \in CameraFields : f \notin DOMAIN cfg["camera"]

\* lines 59-61
CameraMatrix(cam) ==
    << <<cam["fx"], 0, cam["cx"]>>,
       <<0, cam["fy"], cam["cy"]>>,
       <<0, 0, 1>> >>

\* mutant of DistortionCoefficients: the coefficients in the order read
DistortionCoefficients_ReadOrder(cam) ==
    <<cam["k1"], cam["k2"], cam["k3"], cam["p1"], cam["p2"]>>

\* line 63
DistortionCoefficients(cam) ==
    <<cam["k1"], cam["k2"], cam["p1"], cam["p2"], cam["k3"]>>

\* line 65
ImageSize(cam) == <<cam["image_height"], cam["image_width"]>>

\* the value load_camera_intrinsics returns for a complete camera block
CameraResult(cam) ==
    [kind |-> "camera",
     camera_matrix |-> CameraMatrix(cam),
     distortion_coefficients |-> DistortionCoefficients(cam),
     image_size |-> ImageSize(cam)]

\* mutant of CameraIntrinsics: k3 is optional and defaults to 0
CameraIntrinsics_OptionalK3(cfg) ==
    LET withK3(cam) == [f \in DOMAIN cam \cup {"k3"} |->
                           IF f \in DOMAIN cam THEN cam[f] ELSE 0]
    IN  IF "camera" \notin DOMAIN cfg
           \/ \E f \in CameraFields \ {"k3"} : f \notin DOMAIN cfg["camera"]
        THEN [err |-> "KeyError", result |-> NoResult]
        ELSE [err |-> "none", result |-> CameraResult(withK3(cfg["camera"]))]

\* lines 46-67: the outcome of the body of load_camera_intrinsics
CameraIntrinsics(cfg) ==
    IF CameraKeyMissing(cfg)
    THEN [err |-> "KeyError", result |-> NoResult]
    ELSE [err |-> "none", result |-> CameraResult(cfg["camera"])]

(* --------------------------- load_transformation ----------------------- *)

TransformKeys == {"T_cam", "T_imu"}
Coords == 0..MaxCoord
QuatComps == (0 - MaxQuat)..MaxQuat
Positions == [1..3 -> Coords]
Rotations == [1..4 -> QuatComps]

\* transform entries: Position and Rotation, each present or not
TransformEntries ==
    {EmptyMap}
    \cup {[k \in {"Position"} |-> p] : p \in Positions}
    \cup {[k \in {"Rotation"} |-> r] : r \in Rotations}
    \cup {[k \in {"Position", "Rotation"} |->
              IF k = "Position" THEN p ELSE r] : p \in Positions, r \in Rotations}
\* documents hold an entry under "T_cam" or no entry at all
TransformDocs == {EmptyMap} \cup {[k \in {"T_cam"} |-> e] : e \in TransformEntries}

\* mutant of InvalidTransformData: invalid only when both fields are missing
InvalidTransformData_BothMissing(entry) ==
    "Position" \notin DOMAIN entry /\ "Rotation" \notin DOMAIN entry

\* line 141
InvalidTransformData(entry) ==
    "Position" \notin DOMAIN entry \/ "Rotation" \notin DOMAIN entry

\* mutant of SwapFirstLast: the stored order is handed over as it is
SwapFirstLast_NoSwap(q) == q

\* line 150: quaternion[0], quaternion[-1] = quaternion[-1], quaternion[0]
SwapFirstLast(q) == [q EXCEPT ![1] = q[Len(q)], ![Len(q)] = q[1]]

\* squared norm of a quaternion
Norm2(q) == q[1] * q[1] + q[2] * q[2] + q[3] * q[3] + q[4] * q[4]

RECURSIVE GCD(_, _)
GCD(a, b) == IF b = 0 THEN a ELSE GCD(b, a % b)

Abs(n) == IF n < 0 THEN 0 - n ELSE n

\* the number n/d (d > 0) as the fraction <<numerator, denominator>> in
\* lowest terms, so that equal numbers are equal values
Frac(n, d) == LET g == GCD(Abs(n), d) IN <<n \div g, d \div g>>
Whole(n) == Frac(n, 1)

\* line 153: R.from_quat(q).as_matrix() for a scalar-last q = [x, y, z, w];
\* from_quat normalises q, so every cell is a polynomial in q over Norm2(q)
AsMatrix(q) ==
    LET x == q[1]  y == q[2]  z == q[3]  w == q[4]  n == Norm2(q)
    IN  << << Frac(x*x - y*y - z*z + w*w, n), Frac(2 * (x*y - z*w), n),
              Frac(2 * (x*z + y*w), n) >>,
           << Frac(2 * (x*y + z*w), n), Frac(0 - x*x + y*y - z*z + w*w, n),
              Frac(2 * (y*z - x*w), n) >>,
           << Frac(2 * (x*z - y*w), n), Frac(2 * (y*z + x*w), n),
              Frac(0 - x*x - y*y + z*z + w*w, n) >> >>

\* line 156: np.eye(4)
Eye4 == [i \in 1..4 |-> [j \in 1..4 |-> IF i = j THEN Whole(1) ELSE Whole(0)]]

\* lines 156-158: rotation into rows 0..2 x columns 0..2, position into
\* rows 0..2 of column 3, of a 4x4 identity
Homogeneous(rotation, position) ==
    [i \in 1..4 |-> [j \in 1..4 |->
        IF i <= 3 /\ j <= 3 THEN rotation[i][j]
        ELSE IF i <= 3 /\ j = 4 THEN Whole(position[i])
        ELSE Eye4[i][j]]]

(* ------------------------------- state --------------------------------- *)

DocsFor(o) ==
    CASE o = "load_configs"              -> ParamDocs
      [] o = "load_camera_intrinsics"    -> CameraDocs
      [] o = "load_ros_topic_names"      -> TopicDocs
      [] o = "load_parameters_from_yaml" -> ParamDocs
      [] o = "load_transformation"       -> TransformDocs

NoArg == <<>>

ArgsFor(o) ==
    CASE o = "load_parameters_from_yaml" -> KeyLists
      [] o = "load_transformation"       -> {<<k>> : k \in TransformKeys}
      [] OTHER                           -> {NoArg}

Init ==
    /\ pc = "idle"
    /\ op = "none"
    /\ file = "missing"
    /\ doc = EmptyMap
    /\ arg = NoArg
    /\ handles = 0
    /\ pending = "none"
    /\ configs = EmptyMap
    /\ parameters = EmptyMap
    /\ quaternion = <<>>
    /\ result = NoResult
    /\ err = "none"

\* a caller invokes one of the loaders on a file; a file that is missing or
\* malformed holds no document
Call ==
    /\ pc = "idle"
    /\ \E o \in Ops, f \in FileStates :
         /\ op' = o
         /\ file' = f
         /\ \E d \in (IF f = "ok" THEN DocsFor(o) ELSE {EmptyMap}) : doc' = d
         /\ \E a \in ArgsFor(o) : arg' = a
    /\ pc' = "open"
    /\ UNCHANGED <<handles, pending, configs, parameters, quaternion, result,
                   err>>

\* line 28: open(file_path, 'r'); it raises when the file cannot be opened
Open ==
    /\ pc = "open"
    /\ IF file = "missing" \/ handles >= MaxOpenFiles
       THEN /\ err' = "IOError"
            /\ pc' = "done"
            /\ UNCHANGED handles
       ELSE /\ handles' = handles + 1
            /\ pc' = "parse"
            /\ UNCHANGED err
    /\ UNCHANGED <<op, file, doc, arg, pending, configs, parameters,
                   quaternion, result>>

\* line 29: yaml.safe_load(stream), inside the with block
SafeLoad ==
    /\ pc = "parse"
    /\ IF file = "malformed"
       THEN pending' = "ParseError" /\ UNCHANGED configs
       ELSE configs' = doc /\ UNCHANGED pending
    /\ pc' = "exit"
    /\ UNCHANGED <<op, file, doc, arg, handles, parameters, quaternion,
                   result, err>>

\* mutant of HandlesAfterExit: the stream is closed on the normal path only
HandlesAfterExit_LeakOnError(h, exc) == IF exc = "none" THEN h - 1 ELSE h

\* what leaving the with block does to the number of open handles
HandlesAfterExit(h, exc) == h - 1

\* lines 28-30: leaving the with block closes the stream, on return and on
\* an exception alike; then load_configs returns or the exception goes on
WithExit ==
    /\ pc = "exit"
    /\ handles' = HandlesAfterExit(handles, pending)
    /\ IF pending # "none"
       THEN err' = pending /\ pc' = "done"
       ELSE UNCHANGED err /\ pc' = "body"
    /\ UNCHANGED <<op, file, doc, arg, pending, configs, parameters,
                   quaternion, result>>

\* line 30: load_configs called on its own returns the parsed document
LoadConfigs ==
    /\ pc = "body" /\ op = "load_configs"
    /\ result' = [kind |-> "config", config |-> configs]
    /\ pc' = "done"
    /\ UNCHANGED <<op, file, doc, arg, handles, pending, configs, parameters,
                   quaternion, err>>

\* lines 46-67
LoadCameraIntrinsics ==
    /\ pc = "body" /\ op = "load_camera_intrinsics"
    /\ err' = CameraIntrinsics(configs).err
    /\ result' = CameraIntrinsics(configs).result
    /\ pc' = "done"
    /\ UNCHANGED <<op, file, doc, arg, handles, pending, configs, parameters,
                   quaternion>>

\* lines 82-91
LoadRosTopicNames ==
    /\ pc = "body" /\ op = "load_ros_topic_names"
    /\ result' = [kind |-> "topics", topics |-> TopicNames(configs)]
    /\ pc' = "done"
    /\ UNCHANGED <<op, file, doc, arg, handles, pending, configs, parameters,
                   quaternion, err>>

\* lines 109-118
LoadParametersFromYaml ==
    /\ pc = "body" /\ op = "load_parameters_from_yaml"
    /\ parameters' = BuildParameters(configs, arg)
    /\ result' = ParametersReturn(parameters')
    /\ pc' = "done"
    /\ UNCHANGED <<op, file, doc, arg, handles, pending, configs, quaternion,
                   err>>

\* lines 138-160
LoadTransformation ==
    /\ pc = "body" /\ op = "load_transformation"
    /\ LET key == arg[1] IN
       IF key \notin DOMAIN configs
       THEN err' = "KeyError" /\ UNCHANGED <<quaternion, result>>
       ELSE IF InvalidTransformData(configs[key])
       THEN err' = "ValueError" /\ UNCHANGED <<quaternion, result>>
       ELSE IF "Position" \notin DOMAIN configs[key]
               \/ "Rotation" \notin DOMAIN configs[key]
       THEN err' = "KeyError" /\ UNCHANGED <<quaternion, result>>
       ELSE LET position == configs[key]["Position"]
                swapped  == SwapFirstLast(configs[key]["Rotation"])
            IN  /\ quaternion' = swapped
                /\ IF Norm2(swapped) = 0
                   THEN err' = "ValueError" /\ UNCHANGED result
                   ELSE /\ result' = [kind |-> "transform",
                                      matrix |-> Homogeneous(AsMatrix(swapped),
                                                             position)]
                        /\ UNCHANGED err
    /\ pc' = "done"
    /\ UNCHANGED <<op, file, doc, arg, handles, pending, configs, parameters>>

\* the call ends: the value or the exception reaches the caller and the
\* call's locals go out of scope; only the process's open handles remain
Return ==
    /\ pc = "done"
    /\ pc' = "idle"
    /\ op' = "none"
    /\ file' = "missing"
    /\ doc' = EmptyMap
    /\ arg' = NoArg
    /\ pending' = "none"
    /\ configs' = EmptyMap
    /\ parameters' = EmptyMap
    /\ quaternion' = <<>>
    /\ result' = NoResult
    /\ err' = "none"
    /\ UNCHANGED handles

Next ==
    \/ Call
    \/ Open
    \/ SafeLoad
    \/ WithExit
    \/ LoadConfigs
    \/ LoadCameraIntrinsics
    \/ LoadRosTopicNames
    \/ LoadParametersFromYaml
    \/ LoadTransformation
    \/ Return

Spec == Init /\ [][Next]_vars

(* ------------------------------ properties ----------------------------- *)

\* a call of loader o on a readable, well-formed file has finished
Finished(o) == pc = "done" /\ op = o /\ file = "ok"

\* C1: load_parameters_from_yaml returns the bare value if and only if the
\* list of requested keys has length 1, and the key-to-value mapping for
\* every other list, a list repeating one key included.
C1_BareIffOneKeyRequested ==
    Finished("load_parameters_from_yaml") =>
        /\ result.kind \in {"value", "mapping"}
        /\ (result.kind = "value") <=> (Len(arg) = 1)

\* C2: the quaternion load_transformation hands to the rotation routine is
\* [x, y, z, w] for a stored rotation [w, x, y, z].
C2_HandsOverXYZW ==
    (Finished("load_transformation") /\ Len(quaternion) = 4) =>
        LET r == doc[arg[1]]["Rotation"]
        IN  quaternion = <<r[2], r[3], r[4], r[1]>>

C5_AbsentKeysMapToNone ==
    Finished("load_parameters_from_yaml") =>
        /\ err = "none"
        /\ DOMAIN parameters = {arg[i] : i \in 1..Len(arg)}
        /\ \A k \in DOMAIN parameters :
              parameters[k] = IF k \in DOMAIN doc THEN doc[k] ELSE None

C5_Witness ==
    /\ Finished("load_parameters_from_yaml")
    /\ \E i \in 1..Len(arg) : arg[i] \notin DOMAIN doc
    /\ \E i \in 1..Len(arg) : arg[i] \in DOMAIN doc /\ doc[arg[i]] # None
    /\ err = "none"

\* the eleven fields the camera block must hold
RequiredCameraFields ==
    {"fx", "fy", "cx", "cy", "k1", "k2", "k3", "p1", "p2",
     "image_width", "image_height"}

WellFormedCamera ==
    "camera" \in DOMAIN doc /\ RequiredCameraFields \subseteq DOMAIN doc["camera"]

\* C6: for a well-formed camera block load_camera_intrinsics returns the
\* matrix [[fx,0,cx],[0,fy,cy],[0,0,1]], the distortion vector
\* [k1,k2,p1,p2,k3] and the image size (image_height, image_width).
C6_CameraIntrinsics ==
    (Finished("load_camera_intrinsics") /\ WellFormedCamera) =>
        LET c == doc["camera"] IN
        /\ err = "none"
        /\ result.kind = "camera"
        /\ result.camera_matrix = << <<c.fx, 0, c.cx>>,
                                     <<0, c.fy, c.cy>>,
                                     <<0, 0, 1>> >>
        /\ result.distortion_coefficients = <<c.k1, c.k2, c.p1, c.p2, c.k3>>
        /\ result.image_size = <<c.image_height, c.image_width>>

C6_Witness ==
    /\ Finished("load_camera_intrinsics")
    /\ WellFormedCamera
    /\ result.kind = "camera"

RotationOfStored(r) == AsMatrix(<<r[2], r[3], r[4], r[1]>>)

\* C8: a matrix returned by load_transformation is 4x4, its bottom row is
\* [0,0,0,1], rows 0..2 of column 3 are the entry's Position and the
\* top-left 3x3 block is the rotation of the entry's quaternion.
C8_HomogeneousTransform ==
    (Finished("load_transformation") /\ result.kind = "transform") =>
        LET p == doc[arg[1]]["Position"]
            r == doc[arg[1]]["Rotation"]
            m == result.matrix
        IN  /\ DOMAIN m = 1..4
            /\ \A i \in 1..4 : DOMAIN m[i] = 1..4
            /\ m[4] = <<Whole(0), Whole(0), Whole(0), Whole(1)>>
            /\ \A i \in 1..3 : m[i][4] = Whole(p[i])
            /\ \A i \in 1..3 : \A j \in 1..3 : m[i][j] = RotationOfStored(r)[i][j]

\* C9: outside the with block of load_configs no file handle is open: the
\* handle is closed before load_configs returns or raises, hence before the
\* body of a loader runs and after every call.
C9_HandleReleased ==
    /\ handles \in {0, 1}
    /\ pc \in {"idle", "open", "body", "done"} => handles = 0

C9_Witness ==
    /\ pc = "done"
    /\ err = "ParseError"
    /\ handles = 0

\* C10: for every position p, an entry with Position = p and Rotation =
\* [1,0,0,0] gives the 4x4 matrix with the identity as rotation block and p
\* as translation column.
C10_IdentityRotation ==
    (/\ Finished("load_transformation")
     /\ arg[1] \in DOMAIN doc
     /\ DOMAIN doc[arg[1]] = {"Position", "Rotation"}
     /\ doc[arg[1]]["Rotation"] = <<1, 0, 0, 0>>) =>
        LET p == doc[arg[1]]["Position"] IN
        /\ err = "none"
        /\ result.kind = "transform"
        /\ result.matrix =
              << <<Whole(1), Whole(0), Whole(0), Whole(p[1])>>,
                 <<Whole(0), Whole(1), Whole(0), Whole(p[2])>>,
                 <<Whole(0), Whole(0), Whole(1), Whole(p[3])>>,
                 <<Whole(0), Whole(0), Whole(0), Whole(1)>> >>

C10_Witness ==
    /\ Finished("load_transformation")
    /\ arg[1] \in DOMAIN doc
    /\ DOMAIN doc[arg[1]] = {"Position", "Rotation"}
    /\ doc[arg[1]]["Rotation"] = <<1, 0, 0, 0>>
    /\ doc[arg[1]]["Position"] = <<1, 2, 3>>
    /\ result.kind = "transform"

====
